---- MODULE Spec2Model ----
(***************************************************************************)
(* Verification model of the Drake Family Cookbook: the ingredient         *)
(* quantity line (formatScaledQuantity, parseQuantity, fractionToNumber    *)
(* in src/src/pages/RecipePage.tsx), the formatting functions of           *)
(* src/src/utils/recipeFormatting.ts, and the list page and detail page    *)
(* with their fetches, their controls and what they render.                *)
(*                                                                         *)
(* Text is a sequence of one-character strings.  A JavaScript number is a  *)
(* record: a finite value is an exact reduced fraction n/d, NaN is its own *)
(* record.  The texts of the model are too short to reach the magnitudes   *)
(* (1e21, Number.MAX_VALUE) at which String() and toFixed() change their   *)
(* notation, so those notations are not modelled.  Where the binary value  *)
(* of a product may lie on either side of a 2-decimal tie, toFixed may     *)
(* round either way (see ToFixed2).                                        *)
(***************************************************************************)
EXTENDS Integers, Sequences, FiniteSets, TLC

VARIABLES raw, scale, shown, parsed, reparsed

\* the inputs and results of formatTime and getDifficultyLabel
VARIABLES prep, cook, timeText, code, label

\* the route, the state of HomePage, its pending fetch and its render
VARIABLES route, recipes, expandedId, searchTerm, tagFilter, homeLoading, homeError,
          homeFetch, homeView

\* the state of RecipePage (with scale), its pending fetches and its render;
\* effectDue: the effect of the last render has not run yet; lastOutcome:
\* how the fetch issued last has settled, if it has
VARIABLES slug, recipe, loading, error, fetches, effectDue, lastOutcome, detailView

formatVars == <<prep, cook, timeText, code, label>>
quantityVars == <<raw, shown, parsed, reparsed, formatVars>>
homeVars == <<recipes, expandedId, searchTerm, tagFilter, homeLoading, homeError, homeFetch, homeView>>
detailVars == <<slug, recipe, loading, error, fetches, effectDue, lastOutcome, detailView>>
pageVars == <<route, homeVars, detailVars>>

vars == <<raw, scale, shown, parsed, reparsed, formatVars, pageVars>>

(***************************************************************************)
(* Bounds of the model.                                                    *)
(***************************************************************************)
MaxLen == 4   \* longest free-form quantity text drawn over Alphabet
MaxNum == 10  \* largest w, n, d of the documented forms "w", "n/d", "w n/d"
MaxMinutes == 61  \* largest prep time and largest cook time, in minutes

(***************************************************************************)
(* Values.                                                                 *)
(***************************************************************************)
Undefined == <<"undefined">>      \* an absent optional string field
Null == [k |-> "null"]
NaN == [k |-> "NaN"]
Unset == [k |-> "unset"]          \* a result not computed yet
Absent == [k |-> "undefined"]     \* an absent optional field that is not text
Fault == [k |-> "fault"]          \* a TypeError thrown instead of a result
Str(t) == [k |-> "string", text |-> t]
Txt(cs) == [k |-> "text", chars |-> cs]
Arr(xs) == [k |-> "array", items |-> xs]
Image == [k |-> "image"]
Nothing == [k |-> "nothing"]      \* a place of the page left empty

\* the state of a page that is not mounted
HomeUnmounted ==
  /\ recipes = <<>> /\ expandedId = Null /\ searchTerm = <<>> /\ tagFilter = "all"
  /\ homeLoading = TRUE /\ homeError = Null /\ homeFetch = FALSE /\ homeView = Nothing
DetailUnmounted ==
  /\ slug = Absent /\ recipe = Null /\ loading = TRUE /\ error = Null
  /\ fetches = <<>> /\ effectDue = FALSE /\ lastOutcome = "none" /\ detailView = Nothing
NoPages == route = "none" /\ HomeUnmounted /\ DetailUnmounted

Digits == <<"0", "1", "2", "3", "4", "5", "6", "7", "8", "9">>
DigitChars == {Digits[i] : i \in 1..10}
WhiteSpace == {" ", "\t"}
Alphabet == {"0", "1", "/", " ", "\t", ".", "p"}

RECURSIVE Gcd(_, _)
Gcd(a, b) == IF b = 0 THEN a ELSE Gcd(b, a % b)

Abs(a) == IF a < 0 THEN -a ELSE a

\* the finite number a/b (b # 0), reduced, with a positive denominator
Num(a, b) ==
  LET g == Gcd(Abs(a), Abs(b))
      s == IF b < 0 THEN -1 ELSE 1
  IN  [k |-> "num", n |-> (s * a) \div g, d |-> (s * b) \div g]

IsFinite(x) == x.k = "num"
Add(x, y) == Num(x.n * y.d + y.n * x.d, x.d * y.d)
Mul(x, y) == Num(x.n * y.n, x.d * y.d)
Div(x, y) == Num(x.n * y.d, x.d * y.n)
IsInteger(x) == IsFinite(x) /\ x.d = 1

RECURSIVE IsPow2(_)
IsPow2(m) == IF m = 1 THEN TRUE ELSE IF m % 2 # 0 THEN FALSE ELSE IsPow2(m \div 2)

\* a value that a binary double holds exactly
Dyadic(x) == IsFinite(x) /\ IsPow2(x.d)

DigitValue(c) == CHOOSE i \in 0..9 : Digits[i + 1] = c

RECURSIVE Pow10(_)
Pow10(e) == IF e = 0 THEN 1 ELSE 10 * Pow10(e - 1)

RECURSIVE DigitsValue(_)
DigitsValue(s) ==
  IF s = <<>> THEN 0 ELSE 10 * DigitsValue(SubSeq(s, 1, Len(s) - 1)) + DigitValue(s[Len(s)])

RECURSIVE IntToString(_)
IntToString(m) ==
  IF m < 10 THEN <<Digits[m + 1]>> ELSE IntToString(m \div 10) \o <<Digits[(m % 10) + 1]>>

(***************************************************************************)
(* String.prototype.trim, split and includes.                              *)
(***************************************************************************)
RECURSIVE TrimStart(_)
TrimStart(s) ==
  IF s # <<>> /\ s[1] \in WhiteSpace THEN TrimStart(Tail(s)) ELSE s

RECURSIVE TrimEnd(_)
TrimEnd(s) ==
  IF s # <<>> /\ s[Len(s)] \in WhiteSpace THEN TrimEnd(SubSeq(s, 1, Len(s) - 1)) ELSE s

Trim(s) == TrimEnd(TrimStart(s))

Includes(s, c) == \E i \in 1..Len(s) : s[i] = c

\* s.split(c) for a one-character separator: every separator ends a piece
RECURSIVE Split(_, _)
Split(s, c) ==
  IF ~Includes(s, c) THEN <<s>>
  ELSE LET i == CHOOSE j \in 1..Len(s) : s[j] = c /\ \A h \in 1..(j - 1) : s[h] # c
       IN  <<SubSeq(s, 1, i - 1)>> \o Split(SubSeq(s, i + 1, Len(s)), c)

(***************************************************************************)
(* Number(text) on the texts of the model: white space around the literal  *)
(* is skipped, the empty literal is 0, a decimal literal is digits with at *)
(* most one point and at least one digit, everything else is NaN.          *)
(***************************************************************************)
AllDigits(s) == \A i \in 1..Len(s) : s[i] \in DigitChars

Number(s) ==
  LET t == Trim(s)
  IN  IF t = <<>> THEN Num(0, 1)
      ELSE IF AllDigits(t) THEN Num(DigitsValue(t), 1)
      ELSE IF Includes(t, ".")
        THEN LET ps == Split(t, ".")
             IN  IF Len(ps) = 2 /\ AllDigits(ps[1]) /\ AllDigits(ps[2]) /\ Len(t) > 1
                   THEN Num(DigitsValue(ps[1]) * Pow10(Len(ps[2])) + DigitsValue(ps[2]),
                            Pow10(Len(ps[2])))
                   ELSE NaN
        ELSE NaN

(***************************************************************************)
(* fractionToNumber, parseQuantity.                                        *)
(***************************************************************************)
fractionToNumber(value) ==
  IF value = <<>> THEN Null
  ELSE IF Includes(value, "/")
    THEN LET ps == Split(value, "/")
             n == Number(ps[1])
             d == Number(ps[2])
         IN  IF IsFinite(n) /\ IsFinite(d) /\ d.n # 0 THEN Div(n, d) ELSE Null
    ELSE LET n == Number(value)
         IN  IF IsFinite(n) THEN n ELSE Null

\* SumParts with "total = value" in place of "total += value"
RECURSIVE SumParts_Overwrite(_, _, _)
SumParts_Overwrite(parts, i, total) ==
  IF i > Len(parts) THEN total
  ELSE LET value == fractionToNumber(parts[i])
       IN  IF value = Null THEN Null ELSE SumParts_Overwrite(parts, i + 1, value)

\* SumParts with "continue" in place of "return null" for a failed token
RECURSIVE SumParts_SkipFailed(_, _, _)
SumParts_SkipFailed(parts, i, total) ==
  IF i > Len(parts) THEN total
  ELSE LET value == fractionToNumber(parts[i])
       IN  IF value = Null THEN SumParts_SkipFailed(parts, i + 1, total)
           ELSE SumParts_SkipFailed(parts, i + 1, Add(total, value))

\* the for loop of parseQuantity over parts, from index i with running total
RECURSIVE SumParts(_, _, _)
SumParts(parts, i, total) ==
  IF i > Len(parts) THEN total
  ELSE LET value == fractionToNumber(parts[i])
       IN  IF value = Null THEN Null ELSE SumParts(parts, i + 1, Add(total, value))

\* parseQuantity without "if (!raw) return null": undefined.trim() throws
parseQuantity_NoGuard(r) ==
  IF r = Undefined THEN Fault
  ELSE LET text == Trim(r)
       IN  IF text = <<>> THEN Null
           ELSE SumParts(Split(text, " "), 1, Num(0, 1))

\* parseQuantity without the trim
parseQuantity_NoTrim(r) ==
  IF r = Undefined \/ r = <<>> THEN Null
  ELSE SumParts(Split(r, " "), 1, Num(0, 1))

parseQuantity(r) ==
  IF r = Undefined \/ r = <<>> THEN Null
  ELSE LET text == Trim(r)
       IN  IF text = <<>> THEN Null
           ELSE SumParts(Split(text, " "), 1, Num(0, 1))

(***************************************************************************)
(* Number.prototype.toFixed(2) of a finite x >= 0, and String(x).          *)
(***************************************************************************)
TwoDigits(m) == <<Digits[(m \div 10) + 1], Digits[(m % 10) + 1]>>

\* toFixed(2) that drops the digits after the second decimal
ToFixed2_Truncate(x, tieUp) ==
  LET q == (x.n * 100) \div x.d
  IN  IntToString(q \div 100) \o <<".">> \o TwoDigits(q % 100)

\* toFixed picks the integer q with q/100 nearest to the binary value of x,
\* the larger one on a tie.  When the exact product is on a tie but the
\* binary value need not be, tieUp says on which side the binary value lies.
ToFixed2(x, tieUp) ==
  LET q == (x.n * 100) \div x.d
      r == (x.n * 100) % x.d
      m == IF 2 * r > x.d \/ (2 * r = x.d /\ tieUp) THEN q + 1 ELSE q
  IN  IntToString(m \div 100) \o <<".">> \o TwoDigits(m % 100)

\* text.replace(/[.0]+$/, ''): every trailing zero and point is removed
RECURSIVE StripZeros_Greedy(_)
StripZeros_Greedy(s) ==
  IF s # <<>> /\ s[Len(s)] \in {".", "0"}
    THEN StripZeros_Greedy(SubSeq(s, 1, Len(s) - 1))
    ELSE s

\* text.replace(/\.?0+$/, ''): the leftmost suffix made of an optional point
\* and one or more zeros is removed
ZeroTail(s, i) ==
  LET j == IF s[i] = "." THEN i + 1 ELSE i
  IN  j <= Len(s) /\ \A h \in j..Len(s) : s[h] = "0"

StripZeros(s) ==
  IF \E i \in 1..Len(s) : ZeroTail(s, i)
    THEN LET i == CHOOSE j \in 1..Len(s) :
                    ZeroTail(s, j) /\ \A h \in 1..(j - 1) : ~ZeroTail(s, h)
         IN  SubSeq(s, 1, i - 1)
    ELSE s

\* String(x) for an integer and for the scale factors (at most 2 decimals)
NumberToString(x) ==
  IF x.d = 1 THEN IntToString(x.n) ELSE StripZeros(ToFixed2(x, TRUE))

(***************************************************************************)
(* formatScaledQuantity.                                                   *)
(***************************************************************************)
One == Num(1, 1)

\* formatScaledQuantity without the "scale === 1" test
formatScaledQuantity_NoIdentity(r, s, tieUp) ==
  IF r = Undefined \/ r = <<>>
    THEN (IF r = Undefined THEN <<>> ELSE r)
    ELSE LET p == parseQuantity(r)
         IN  IF p = Null
               THEN r \o <<" ", "(", "x">> \o NumberToString(s) \o <<")">>
               ELSE LET scaled == Mul(p, s)
                    IN  IF IsInteger(scaled)
                          THEN NumberToString(scaled)
                          ELSE StripZeros(ToFixed2(scaled, tieUp))

\* formatScaledQuantity that returns the bare text when parsing fails
formatScaledQuantity_NoAnnotation(r, s, tieUp) ==
  IF r = Undefined \/ r = <<>> \/ s = One
    THEN (IF r = Undefined THEN <<>> ELSE r)
    ELSE LET p == parseQuantity(r)
         IN  IF p = Null
               THEN r
               ELSE LET scaled == Mul(p, s)
                    IN  IF IsInteger(scaled)
                          THEN NumberToString(scaled)
                          ELSE StripZeros(ToFixed2(scaled, tieUp))

\* formatScaledQuantity with toFixed(2) for whole numbers too
formatScaledQuantity_AlwaysFixed(r, s, tieUp) ==
  IF r = Undefined \/ r = <<>> \/ s = One
    THEN (IF r = Undefined THEN <<>> ELSE r)
    ELSE LET p == parseQuantity(r)
         IN  IF p = Null
               THEN r \o <<" ", "(", "x">> \o NumberToString(s) \o <<")">>
               ELSE LET scaled == Mul(p, s)
                    IN  IF IsInteger(scaled)
                          THEN ToFixed2(scaled, tieUp)
                          ELSE StripZeros(ToFixed2(scaled, tieUp))

\* formatScaledQuantity with "scale === 1" alone as its first test
formatScaledQuantity_NoEmptyGuard(r, s, tieUp) ==
  IF s = One
    THEN (IF r = Undefined THEN <<>> ELSE r)
    ELSE LET p == parseQuantity(r)
         IN  IF p = Null
               THEN r \o <<" ", "(", "x">> \o NumberToString(s) \o <<")">>
               ELSE LET scaled == Mul(p, s)
                    IN  IF IsInteger(scaled)
                          THEN NumberToString(scaled)
                          ELSE StripZeros(ToFixed2(scaled, tieUp))

formatScaledQuantity(r, s, tieUp) ==
  IF r = Undefined \/ r = <<>> \/ s = One
    THEN (IF r = Undefined THEN <<>> ELSE r)
    ELSE LET p == parseQuantity(r)
         IN  IF p = Null
               THEN r \o <<" ", "(", "x">> \o NumberToString(s) \o <<")">>
               ELSE LET scaled == Mul(p, s)
                    IN  IF IsInteger(scaled)
                          THEN NumberToString(scaled)
                          ELSE StripZeros(ToFixed2(scaled, tieUp))

\* every token of the text is computed without binary rounding error
ExactToken(t) ==
  IF Includes(t, "/")
    THEN LET ps == Split(t, "/")
         IN  Dyadic(Number(ps[1])) /\ Dyadic(Number(ps[2])) /\ Dyadic(fractionToNumber(t))
    ELSE Dyadic(Number(t))

BinaryExact(r) ==
  LET parts == Split(Trim(r), " ")
  IN  \A i \in 1..Len(parts) : ExactToken(parts[i])

\* an exact tie rounds up; an inexact one lies on either side
TieChoices(r) ==
  IF r = Undefined \/ parseQuantity(r) = Null \/ BinaryExact(r) THEN {TRUE} ELSE BOOLEAN

(***************************************************************************)
(* formatTime (src/src/utils/recipeFormatting.ts).  The minutes are        *)
(* integers: "prep ?? 0" replaces an absent (undefined or null) value.     *)
(***************************************************************************)
OrZero(x) == IF x = Absent \/ x = Null THEN Num(0, 1) ELSE x

TimeVaries == <<"T", "i", "m", "e", " ", "v", "a", "r", "i", "e", "s">>

\* formatTime without the "Time varies" test
formatTime_NoVaries(p, c) ==
  LET total == Add(OrZero(p), OrZero(c))
  IN  IF total.n < 60 THEN IntToString(total.n) \o <<" ", "m", "i", "n">>
      ELSE LET hours == total.n \div 60
               minutes == total.n % 60
           IN  IF minutes # 0
                 THEN IntToString(hours) \o <<"h", " ">> \o IntToString(minutes) \o <<"m">>
                 ELSE IntToString(hours) \o <<"h">>

\* formatTime that forgets the cook time
formatTime_PrepOnly(p, c) ==
  LET total == OrZero(p)
  IN  IF total.n = 0 THEN TimeVaries
      ELSE IF total.n < 60 THEN IntToString(total.n) \o <<" ", "m", "i", "n">>
      ELSE LET hours == total.n \div 60
               minutes == total.n % 60
           IN  IF minutes # 0
                 THEN IntToString(hours) \o <<"h", " ">> \o IntToString(minutes) \o <<"m">>
                 ELSE IntToString(hours) \o <<"h">>

\* formatTime that always writes the minutes part
formatTime_AlwaysMinutes(p, c) ==
  LET total == Add(OrZero(p), OrZero(c))
  IN  IF total.n = 0 THEN TimeVaries
      ELSE IF total.n < 60 THEN IntToString(total.n) \o <<" ", "m", "i", "n">>
      ELSE LET hours == total.n \div 60
               minutes == total.n % 60
           IN  IntToString(hours) \o <<"h", " ">> \o IntToString(minutes) \o <<"m">>

\* formatTime with "prep + cook" and no "?? 0": an absent value makes the
\* sum NaN, which is falsy
formatTime_NoDefault(p, c) ==
  IF p \in {Absent, Null} \/ c \in {Absent, Null} THEN TimeVaries
  ELSE LET total == Add(p, c)
       IN  IF total.n = 0 THEN TimeVaries
           ELSE IF total.n < 60 THEN IntToString(total.n) \o <<" ", "m", "i", "n">>
           ELSE LET hours == total.n \div 60
                    minutes == total.n % 60
                IN  IF minutes # 0
                      THEN IntToString(hours) \o <<"h", " ">> \o IntToString(minutes) \o <<"m">>
                      ELSE IntToString(hours) \o <<"h">>

formatTime(p, c) ==
  LET total == Add(OrZero(p), OrZero(c))
  IN  IF total.n = 0 THEN TimeVaries
      ELSE IF total.n < 60 THEN IntToString(total.n) \o <<" ", "m", "i", "n">>
      ELSE LET hours == total.n \div 60
               minutes == total.n % 60
           IN  IF minutes # 0
                 THEN IntToString(hours) \o <<"h", " ">> \o IntToString(minutes) \o <<"m">>
                 ELSE IntToString(hours) \o <<"h">>

(***************************************************************************)
(* getDifficultyLabel.  difficultyLabel is an object literal: a key that   *)
(* is not its own is looked up on Object.prototype, where "constructor"    *)
(* and "toString" are functions and "__proto__" is the prototype object.   *)
(***************************************************************************)
Function(name) == [k |-> "function", text |-> name]
Object(name) == [k |-> "object", text |-> name]

\* a lookup that ignores the case of the key
difficultyLabel_IgnoreCase(key) ==
  CASE key \in {"easy", "Easy", "EASY"} -> Str("Easy")
    [] key \in {"weeknight", "Weeknight"} -> Str("Weeknight-friendly")
    [] key \in {"showstopper", "Showstopper"} -> Str("Showstopper")
    [] key = "constructor" -> Function("Object")
    [] key = "toString" -> Function("toString")
    [] key = "__proto__" -> Object("Object.prototype")
    [] OTHER -> Absent

\* difficultyLabel[key]
difficultyLabel(key) ==
  CASE key = "easy" -> Str("Easy")
    [] key = "weeknight" -> Str("Weeknight-friendly")
    [] key = "showstopper" -> Str("Showstopper")
    [] key = "constructor" -> Function("Object")
    [] key = "toString" -> Function("toString")
    [] key = "__proto__" -> Object("Object.prototype")
    [] OTHER -> Absent

\* a value that a condition takes as true
Truthy(v) ==
  \/ v.k \in {"function", "object", "array", "image", "builder", "slug"}
  \/ v.k = "string" /\ v.text # ""
  \/ v.k = "text" /\ v.chars # <<>>
  \/ v.k = "num" /\ v.n # 0

\* "a ?? b"
Coalesce(a, b) == IF a = Absent \/ a = Null THEN b ELSE a

getDifficultyLabel(value) ==
  IF Truthy(value) THEN Coalesce(difficultyLabel(value.text), value) ELSE Null

(***************************************************************************)
(* The ingredient line of the detail page: the quantity text of a fetched  *)
(* ingredient, the selected scale and the scaled quantity on display.      *)
(***************************************************************************)
Scales == {Num(1, 4), Num(1, 2), Num(1, 1), Num(2, 1), Num(4, 1)}

Strs(n) == UNION {[1..k -> Alphabet] : k \in 0..n}

WholeText(w) == IntToString(w)
FractionText(n, d) == IntToString(n) \o <<"/">> \o IntToString(d)
MixedText(w, n, d) == IntToString(w) \o <<" ">> \o FractionText(n, d)

DocumentedTexts ==
  {WholeText(w) : w \in 0..MaxNum}
    \cup {FractionText(n, d) : n \in 0..MaxNum, d \in 0..MaxNum}
    \cup {MixedText(w, n, d) : w \in 0..MaxNum, n \in 0..MaxNum, d \in 0..MaxNum}

RawInputs == {Undefined} \cup Strs(MaxLen) \cup DocumentedTexts

Init ==
  /\ raw \in RawInputs
  /\ scale = One
  /\ shown = formatScaledQuantity(raw, One, TRUE)
  /\ parsed = Unset
  /\ reparsed = Unset
  /\ prep = Absent /\ cook = Absent /\ timeText = <<>>
  /\ code = Absent /\ label = Unset
  /\ NoPages

\* a scale button is pressed and the ingredient line is rendered again
\* (a press of the active button leaves the state as it is)
SetScale(s) ==
  /\ s # scale
  /\ scale' = s
  /\ \E tieUp \in TieChoices(raw) : shown' = formatScaledQuantity(raw, s, tieUp)
  /\ reparsed' = Unset
  /\ UNCHANGED <<raw, parsed, formatVars, pageVars>>

\* parseQuantity applied to the quantity text
ParseQuantity ==
  /\ parsed = Unset
  /\ parsed' = parseQuantity(raw)
  /\ UNCHANGED <<raw, scale, shown, reparsed, formatVars, pageVars>>

\* parseQuantity applied to the text on display, after the quantity text
ParseShown ==
  /\ parsed # Unset
  /\ reparsed = Unset
  /\ reparsed' = parseQuantity(shown)
  /\ UNCHANGED <<raw, scale, shown, parsed, formatVars, pageVars>>

Next ==
  \/ \E s \in Scales : SetScale(s)
  \/ ParseQuantity
  \/ ParseShown

Spec == Init /\ [][Next]_vars

(***************************************************************************)
(* The formatting functions applied to drawn inputs: the times of a        *)
(* recipe, its difficulty code, or the quantity text of an ingredient at   *)
(* a scale.  Each function is applied once to its input.                   *)
(***************************************************************************)
Minutes == {Absent, Null} \cup {Num(m, 1) : m \in 0..MaxMinutes}

Codes ==
  {Absent, Null} \cup
    {Str(t) : t \in {"", "easy", "weeknight", "showstopper", "Easy", "EASY",
                     "Weeknight-friendly", "custom", "constructor", "toString",
                     "__proto__"}}

QuantitySamples ==
  {Undefined, <<>>, <<" ">>, <<"p">>, <<"1">>, <<"1", "/", "2">>, <<"1", "/", "3">>,
   <<"1", " ", "1", "/", "2">>, <<"/", "1">>}

InitFormat ==
  /\ \/ prep \in Minutes /\ cook \in Minutes /\ code = Absent
        /\ raw = Undefined /\ scale = One
     \/ prep = Absent /\ cook = Absent /\ code \in Codes
        /\ raw = Undefined /\ scale = One
     \/ prep = Absent /\ cook = Absent /\ code = Absent
        /\ raw \in QuantitySamples /\ scale \in Scales
  /\ timeText = <<>>
  /\ label = Unset
  /\ shown = <<>>
  /\ parsed = Unset
  /\ reparsed = Unset
  /\ NoPages

FormatTime ==
  /\ timeText = <<>>
  /\ timeText' = formatTime(prep, cook)
  /\ UNCHANGED <<raw, scale, shown, parsed, reparsed, prep, cook, code, label, pageVars>>

GetDifficultyLabel ==
  /\ label = Unset
  /\ label' = getDifficultyLabel(code)
  /\ UNCHANGED <<raw, scale, shown, parsed, reparsed, prep, cook, timeText, code, pageVars>>

\* formatScaledQuantity and parseQuantity applied to the quantity text
FormatScaledQuantity ==
  /\ parsed = Unset
  /\ parsed' = parseQuantity(raw)
  /\ \E tieUp \in TieChoices(raw) : shown' = formatScaledQuantity(raw, scale, tieUp)
  /\ UNCHANGED <<raw, scale, reparsed, formatVars, pageVars>>

NextFormat ==
  \/ FormatTime
  \/ GetDifficultyLabel
  \/ FormatScaledQuantity

SpecFormat == InitFormat /\ [][NextFormat]_vars

(***************************************************************************)
(* Recipe documents and what the two pages render from them.  A field of   *)
(* a document holds Absent (undefined), Null, or a value: Txt of a         *)
(* character sequence, Str of a word, a number, Arr of a list, an image.   *)
(* A render is a node, or Fault when an expression of the render throws    *)
(* (a method called on undefined or null, an object used as a child).      *)
(***************************************************************************)
Nullish(v) == v = Absent \/ v = Null

\* "a || b"
OrElse(a, b) == IF Truthy(a) THEN a ELSE b

\* a value placed in the page: React throws on a plain object
Child(v) == IF v.k = "object" THEN Fault ELSE v

\* the elements of an array; none for a value that is no array
Items(a) == IF a.k = "array" THEN a.items ELSE <<>>

\* a.map(...) with the sequence ys of the mapped elements: a TypeError
\* when a is undefined or null, and the throw of an element is a throw
Map(a, ys) ==
  IF a.k # "array" THEN Fault
  ELSE IF \E i \in 1..Len(ys) : ys[i] = Fault THEN Fault
  ELSE Arr(ys)

\* a?.map(...)
OptionalMap(a, ys) == IF Nullish(a) THEN Absent ELSE Map(a, ys)

\* text.toLowerCase() and text.includes(part) on the letters of the model
LowerChar(c) == CASE c = "A" -> "a" [] c = "B" -> "b" [] OTHER -> c
ToLowerCase(cs) == [i \in 1..Len(cs) |-> LowerChar(cs[i])]
IncludesText(cs, part) ==
  \E i \in 0..(Len(cs) - Len(part)) : SubSeq(cs, i + 1, i + Len(part)) = part

\* urlFor(source)?.width(w).height(h).url() for an absent or well-formed
\* image reference
urlFor(source) == IF ~Truthy(source) THEN Null ELSE [k |-> "builder"]
ImageUrl(source) == IF Nullish(urlFor(source)) THEN Absent ELSE Str("url")

\* the argument of formatScaledQuantity for a quantity field
QuantityArg(v) == IF v.k = "text" THEN v.chars ELSE Undefined

emptySteps == Arr(<<Str("Add steps")>>)
Dash == Str("-")                   \* the dash listed for a missing label

\* recipe.slug?.current
SlugCurrent(v) == IF Nullish(v) THEN Absent ELSE v.current

\* one <li> of an ingredient list; the parts are joined with ' '
IngredientLine(ingredient, quantity) ==
  [k |-> "li", key |-> ingredient._key,
   primary |-> SelectSeq(<<quantity, ingredient.unit, ingredient.item>>, Truthy),
   note |-> IF Truthy(ingredient.note) THEN Child(ingredient.note) ELSE Nothing]

\* the eyebrow of a card and the badge of the detail page
SharedBy(doc) ==
  IF Truthy(doc.familyMember)
    THEN [k |-> "sharedBy", who |-> doc.familyMember]
    ELSE Str("Family recipe")

\* a component throws when one of its children does
Rendered(node, children) ==
  IF \E child \in children : node[child] = Fault THEN Fault ELSE node

\* the line of an ingredient on a card: the quantity as it is stored
CardLine(ingredient) == IngredientLine(ingredient, ingredient.quantity)

\* the pills of a card: two tags and the count of the others
TagsInline(tags) ==
  IF Truthy(tags) /\ Len(tags.items) > 0
    THEN [shown |-> SubSeq(tags.items, 1, IF Len(tags.items) < 2 THEN Len(tags.items) ELSE 2),
          more |-> IF Len(tags.items) > 2 THEN Len(tags.items) - 2 ELSE 0]
    ELSE Nothing

\* recipe.instructions?.length ? recipe.instructions : emptySteps
StepsOf(instructions) ==
  IF ~Nullish(instructions) /\ Len(instructions.items) # 0 THEN instructions ELSE emptySteps

\* the JSX of RecipeCard for the values computed at its head
CardNode(doc, index, expanded, image, ingredients, steps, difficulty, current) ==
  Rendered(
    [k |-> "card", key |-> doc._id, accent |-> index % 4,
     background |-> IF Truthy(image) THEN image ELSE Absent,
     pill |-> IF Truthy(difficulty) THEN Child(difficulty) ELSE Nothing,
     tags |-> TagsInline(doc.tags),
     time |-> Txt(formatTime(doc.prepTime, doc.cookTime)),
     servings |-> IF Truthy(doc.servings) THEN doc.servings ELSE Nothing,
     eyebrow |-> SharedBy(doc),
     title |-> Child(doc.title),
     description |-> Child(OrElse(doc.shortDescription, Str("No description yet."))),
     toggle |-> IF expanded THEN "Hide steps" ELSE "View steps",
     link |-> IF Truthy(current) THEN current ELSE Nothing,
     lines |-> IF expanded
                 THEN Map(ingredients, [i \in 1..Len(Items(ingredients)) |->
                                         CardLine(Items(ingredients)[i])])
                 ELSE Nothing,
     steps |-> IF expanded
                 THEN Map(steps, [i \in 1..Len(Items(steps)) |-> Child(Items(steps)[i])])
                 ELSE Nothing,
     tips |-> IF expanded /\ Truthy(doc.tips) THEN Child(doc.tips) ELSE Nothing],
    {"pill", "title", "description", "lines", "steps", "tips"})

\* RecipeCard with the ingredient list read without "?? []"
RecipeCard_NoDefault(doc, index, expanded) ==
  CardNode(doc, index, expanded,
           ImageUrl(doc.heroImage),
           doc.ingredients,
           StepsOf(doc.instructions),
           getDifficultyLabel(doc.difficulty),
           SlugCurrent(doc.slug))

\* RecipeCard (src/src/pages/Home.tsx)
RecipeCard(doc, index, expanded) ==
  CardNode(doc, index, expanded,
           ImageUrl(doc.heroImage),
           Coalesce(doc.ingredients, Arr(<<>>)),
           StepsOf(doc.instructions),
           getDifficultyLabel(doc.difficulty),
           SlugCurrent(doc.slug))

\* the tags of the model in the order of localeCompare
TagUniverse == <<"all", "dinner", "quick">>

\* a.localeCompare(b): negative, zero or positive
localeCompare(a, b) ==
  LET Rank(t) == CHOOSE i \in 1..Len(TagUniverse) : TagUniverse[i] = t
  IN  Rank(a) - Rank(b)

\* recipe.tags?.forEach((tag) => tagSet.add(tag)): a Set keeps each value
\* once, in the order of its first insertion
RECURSIVE AddTags(_, _)
AddTags(tagSet, tags) ==
  IF tags = <<>> THEN tagSet
  ELSE AddTags(IF \E i \in 1..Len(tagSet) : tagSet[i] = Head(tags).text
                 THEN tagSet
                 ELSE Append(tagSet, Head(tags).text),
               Tail(tags))

\* the Set after recipes.forEach
RECURSIVE tagSet(_)
tagSet(docs) ==
  IF docs = <<>> THEN <<>>
  ELSE AddTags(tagSet(SubSeq(docs, 1, Len(docs) - 1)),
               Items(docs[Len(docs)].tags))

\* Array.prototype.sort with the comparator, stable
RECURSIVE Sort(_)
Sort(s) ==
  IF s = <<>> THEN <<>>
  ELSE LET sorted == Sort(SubSeq(s, 1, Len(s) - 1))
           t == s[Len(s)]
           k == Cardinality({i \in 1..Len(sorted) : localeCompare(sorted[i], t) <= 0})
       IN  SubSeq(sorted, 1, k) \o <<t>> \o SubSeq(sorted, k + 1, Len(sorted))

\* availableTags: the tags of all recipes, each once, sorted
availableTags(docs) == Sort(tagSet(docs))

\* the predicate of filteredRecipes: "true", "" or Fault when it throws
Matches(doc, normalizedSearch, filter) ==
  IF normalizedSearch # <<>> /\ Nullish(doc.title) THEN Fault
  ELSE IF /\ \/ normalizedSearch = <<>>
             \/ IncludesText(ToLowerCase(doc.title.chars), normalizedSearch)
             \/ /\ ~Nullish(doc.shortDescription)
                /\ IncludesText(ToLowerCase(doc.shortDescription.chars), normalizedSearch)
          /\ \/ filter = "all"
             \/ /\ ~Nullish(doc.tags)
                /\ \E j \in 1..Len(doc.tags.items) : doc.tags.items[j] = Str(filter)
    THEN Str("true")
  ELSE Str("")

\* recipes.filter(...) for the normalized search text
Filtered(docs, normalizedSearch, filter) ==
  IF \E i \in 1..Len(docs) : Matches(docs[i], normalizedSearch, filter) = Fault
    THEN Fault
    ELSE LET Passes(doc) == Truthy(Matches(doc, normalizedSearch, filter))
         IN  Arr(SelectSeq(docs, Passes))

\* filteredRecipes without the trim of the search term
filteredRecipes_NoTrim(docs, term, filter) == Filtered(docs, ToLowerCase(term), filter)

\* filteredRecipes
filteredRecipes(docs, term, filter) == Filtered(docs, ToLowerCase(Trim(term)), filter)

\* the JSX of HomePage with the first-recipe state not looking at the error
HomeNode_ReadyOnError(docs, listed, filter, openId, busy, err) ==
  Rendered(
    [k |-> "home",
     count |-> IF busy THEN Str("Loading") ELSE Num(Len(listed), 1),
     chips |-> <<"all">> \o availableTags(docs),
     active |-> filter,
     alert |-> IF Truthy(err) THEN err ELSE Nothing,
     gathering |-> busy,
     ready |-> ~busy /\ Len(docs) = 0,
     noMatches |-> ~busy /\ Len(listed) = 0 /\ Len(docs) > 0,
     grid |-> IF ~busy /\ Len(listed) > 0
                THEN Map(Arr(listed),
                         [i \in 1..Len(listed) |->
                            RecipeCard(listed[i], i - 1, openId = Str(listed[i]._id))])
                ELSE Nothing],
    {"grid"})

\* the JSX of HomePage for the recipes that pass the filter
HomeNode(docs, listed, filter, openId, busy, err) ==
  Rendered(
    [k |-> "home",
     count |-> IF busy THEN Str("Loading") ELSE Num(Len(listed), 1),
     chips |-> <<"all">> \o availableTags(docs),
     active |-> filter,
     alert |-> IF Truthy(err) THEN err ELSE Nothing,
     gathering |-> busy,
     ready |-> ~busy /\ Len(docs) = 0 /\ ~Truthy(err),
     noMatches |-> ~busy /\ Len(listed) = 0 /\ Len(docs) > 0,
     grid |-> IF ~busy /\ Len(listed) > 0
                THEN Map(Arr(listed),
                         [i \in 1..Len(listed) |->
                            RecipeCard(listed[i], i - 1, openId = Str(listed[i]._id))])
                ELSE Nothing],
    {"grid"})

\* what HomePage returns
HomePage(docs, term, filter, openId, busy, err) ==
  IF filteredRecipes(docs, term, filter) = Fault THEN Fault
  ELSE HomeNode(docs, filteredRecipes(docs, term, filter).items, filter, openId, busy, err)

\* the JSX of the recipe view for the values computed at its head
RecipeNode(doc, s, tieUp, heroUrl, difficulty) ==
  Rendered(
    [k |-> "recipe",
     tags |-> IF Truthy(doc.tags) /\ Len(doc.tags.items) > 0
                THEN Map(doc.tags, [i \in 1..Len(Items(doc.tags)) |-> Child(Items(doc.tags)[i])])
                ELSE Nothing,
     badge |-> SharedBy(doc),
     title |-> Child(doc.title),
     lede |-> Child(doc.shortDescription),
     time |-> Txt(formatTime(doc.prepTime, doc.cookTime)),
     servings |-> IF Truthy(doc.servings) THEN Coalesce(doc.servings, Dash)
                  ELSE Child(doc.servings),
     difficulty |-> Child(Coalesce(difficulty, Dash)),
     hero |-> IF Truthy(heroUrl) THEN heroUrl ELSE Nothing,
     active |-> s,
     lines |-> OptionalMap(doc.ingredients,
                 [i \in 1..Len(Items(doc.ingredients)) |->
                    IngredientLine(Items(doc.ingredients)[i],
                      Txt(formatScaledQuantity(QuantityArg(Items(doc.ingredients)[i].quantity),
                                               s, tieUp)))]),
     tips |-> IF Truthy(doc.tips) THEN Child(doc.tips) ELSE Nothing,
     steps |-> OptionalMap(doc.instructions,
                 [i \in 1..Len(Items(doc.instructions)) |-> Child(Items(doc.instructions)[i])])],
    {"tags", "title", "lede", "servings", "difficulty", "lines", "tips", "steps"})

\* the recipe view of RecipePage (src/src/pages/RecipePage.tsx), shown
\* when the page is not loading, has no error and holds a recipe
RecipeView(doc, s, tieUp) ==
  RecipeNode(doc, s, tieUp, ImageUrl(doc.heroImage), getDifficultyLabel(doc.difficulty))

\* a RecipePage that shows a recipe it holds whatever the error
RecipePage_IgnoreError(doc, busy, err, s, tieUp) ==
  IF busy THEN [k |-> "loading"]
  ELSE IF doc = Null
    THEN [k |-> "alert", message |-> Coalesce(err, Str("Recipe not found"))]
  ELSE RecipeView(doc, s, tieUp)

\* what RecipePage returns: the loading view, the alert, or the recipe
RecipePage(doc, busy, err, s, tieUp) ==
  IF busy THEN [k |-> "loading"]
  ELSE IF Truthy(err) \/ doc = Null
    THEN [k |-> "alert", message |-> Coalesce(err, Str("Recipe not found"))]
  ELSE RecipeView(doc, s, tieUp)

(***************************************************************************)
(* The two pages behind the router (src/unnamed/part_001): the list page   *)
(* at "/" and the detail page at "/recipes/:slug".  A page that is not on  *)
(* the route is unmounted: its state is gone and responses to its fetches  *)
(* are dropped.  After every change of state the page is rendered again.   *)
(***************************************************************************)
Slug(s) == [k |-> "slug", current |-> Str(s)]

Slugs == {"a", "b"}

OptionalFields ==
  {"slug", "shortDescription", "familyMember", "servings", "prepTime", "cookTime",
   "difficulty", "tags", "tips", "heroImage", "ingredients", "instructions",
   "quantity", "unit", "note"}

\* a recipe document whose fields in missing are nul (undefined or null);
\* quantity, unit and note are those of its first ingredient
Doc(missing, nul, quantity) ==
  LET F(field, value) == IF field \in missing THEN nul ELSE value
  IN  [_id |-> "r1",
       title |-> Txt(<<"A", "b">>),
       slug |-> F("slug", Slug("a")),
       shortDescription |-> F("shortDescription", Txt(<<"B">>)),
       familyMember |-> F("familyMember", Str("Gran")),
       servings |-> F("servings", Num(4, 1)),
       prepTime |-> F("prepTime", Num(20, 1)),
       cookTime |-> F("cookTime", Num(45, 1)),
       difficulty |-> F("difficulty", Str("easy")),
       tags |-> F("tags", Arr(<<Str("quick"), Str("dinner"), Str("all")>>)),
       tips |-> F("tips", Str("Rest the dough")),
       heroImage |-> F("heroImage", Image),
       ingredients |->
         F("ingredients",
           Arr(<<[_key |-> "k1", item |-> Str("flour"),
                  quantity |-> F("quantity", Txt(quantity)),
                  unit |-> F("unit", Str("cup")),
                  note |-> F("note", Str("sifted"))],
                 [_key |-> "k2", item |-> Str("salt"),
                  quantity |-> Txt(<<"1">>),
                  unit |-> Str("pinch"),
                  note |-> Absent]>>)),
       instructions |-> F("instructions", Arr(<<Str("Mix"), Str("Bake")>>))]

\* a second, complete recipe
Other ==
  [_id |-> "r2",
   title |-> Txt(<<"b", "b">>),
   slug |-> Slug("b"),
   shortDescription |-> Txt(<<"a">>),
   familyMember |-> Str("Pop"),
   servings |-> Num(2, 1),
   prepTime |-> Num(60, 1),
   cookTime |-> Num(0, 1),
   difficulty |-> Str("showstopper"),
   tags |-> Arr(<<Str("dinner")>>),
   tips |-> Str("Serve warm"),
   heroImage |-> Image,
   ingredients |->
     Arr(<<[_key |-> "k1", item |-> Str("egg"), quantity |-> Txt(<<"1", " ", "1", "/", "2">>),
            unit |-> Str("dozen"), note |-> Str("large")]>>),
   instructions |-> Arr(<<Str("Whisk")>>)]

MaxFetches == 2   \* most detail queries pending at once

\* the fields a drawn document lacks: none, one of them, or all
Missings == {{}} \cup {{f} : f \in OptionalFields} \cup {OptionalFields}

QuantityTexts == {<<"1", "/", "2">>, <<"p">>}

Docs == {Doc(m, nul, q) : m \in Missings, nul \in {Absent, Null}, q \in QuantityTexts}

\* what the list query can return, and the detail query for a slug
HomeResponses ==
  {<<>>} \cup {<<d, Other>> : d \in Docs} \cup {<<Other, Doc({}, Absent, q)>> : q \in QuantityTexts}
DetailResponses(s) == {Null} \cup {d \in Docs \cup {Other} : d.slug = Slug(s)}

SearchTerms == {<<>>, <<" ", "\t">>, <<"A">>, <<" ", "B", " ">>, <<"a", "b">>, <<"a", "a">>}

RecipeBoxError == Str("We could not reach the recipe box right now. Please try again soon.")
RecipeError == Str("We could not reach this recipe right now. Please try again.")
NotFound == Str("Recipe not found")

\* HomePage is mounted: useState and the effect that starts the fetch
MountHome ==
  /\ route' = "/"
  /\ recipes' = <<>> /\ expandedId' = Null /\ searchTerm' = <<>> /\ tagFilter' = "all"
  /\ homeLoading' = TRUE /\ homeError' = Null /\ homeFetch' = TRUE
  /\ homeView' = HomePage(<<>>, <<>>, "all", Null, TRUE, Null)
UnmountHome ==
  /\ recipes' = <<>> /\ expandedId' = Null /\ searchTerm' = <<>> /\ tagFilter' = "all"
  /\ homeLoading' = TRUE /\ homeError' = Null /\ homeFetch' = FALSE /\ homeView' = Nothing

\* RecipePage is mounted with a slug: useState and the first render
MountDetail(s) ==
  /\ route' = "/recipes/:slug"
  /\ slug' = s /\ recipe' = Null /\ loading' = TRUE /\ error' = Null /\ scale' = One
  /\ fetches' = <<>> /\ effectDue' = TRUE /\ lastOutcome' = "none"
  /\ detailView' = RecipePage(Null, TRUE, Null, One, TRUE)
UnmountDetail ==
  /\ slug' = Absent /\ recipe' = Null /\ loading' = TRUE /\ error' = Null
  /\ fetches' = <<>> /\ effectDue' = FALSE /\ lastOutcome' = "none"
  /\ detailView' = Nothing /\ scale' = One

Remove(xs, i) == SubSeq(xs, 1, i - 1) \o SubSeq(xs, i + 1, Len(xs))

InitPages ==
  /\ raw = Undefined /\ shown = <<>> /\ parsed = Unset /\ reparsed = Unset
  /\ prep = Absent /\ cook = Absent /\ timeText = <<>>
  /\ code = Absent /\ label = Unset
  /\ \/ /\ route = "/"
        /\ recipes = <<>> /\ expandedId = Null /\ searchTerm = <<>> /\ tagFilter = "all"
        /\ homeLoading = TRUE /\ homeError = Null /\ homeFetch = TRUE
        /\ homeView = HomePage(<<>>, <<>>, "all", Null, TRUE, Null)
        /\ DetailUnmounted /\ scale = One
     \/ /\ route = "/recipes/:slug"
        /\ slug \in {Absent} \cup {Str(s) : s \in Slugs}
        /\ recipe = Null /\ loading = TRUE /\ error = Null /\ scale = One
        /\ fetches = <<>> /\ effectDue = TRUE /\ lastOutcome = "none"
        /\ detailView = RecipePage(Null, TRUE, Null, One, TRUE)
        /\ HomeUnmounted

\* the list query resolves: setRecipes(data), setLoading(false)
HomeFetchFulfil(data) ==
  /\ route = "/" /\ homeFetch /\ homeView # Fault
  /\ recipes' = data
  /\ homeLoading' = FALSE
  /\ homeFetch' = FALSE
  /\ homeView' = HomePage(data, searchTerm, tagFilter, expandedId, FALSE, homeError)
  /\ UNCHANGED <<route, expandedId, searchTerm, tagFilter, homeError, scale, detailVars, quantityVars>>

\* the list query rejects: setError(...), setLoading(false)
HomeFetchReject ==
  /\ route = "/" /\ homeFetch /\ homeView # Fault
  /\ homeError' = RecipeBoxError
  /\ homeLoading' = FALSE
  /\ homeFetch' = FALSE
  /\ homeView' = HomePage(recipes, searchTerm, tagFilter, expandedId, FALSE, RecipeBoxError)
  /\ UNCHANGED <<route, recipes, expandedId, searchTerm, tagFilter, scale, detailVars, quantityVars>>

\* the search box changes and collapses the expanded card
SetSearchTerm_Collapses(text) ==
  /\ route = "/" /\ homeView # Fault
  /\ searchTerm' = text
  /\ expandedId' = Null
  /\ homeView' = HomePage(recipes, text, tagFilter, Null, homeLoading, homeError)
  /\ UNCHANGED <<route, recipes, tagFilter, homeLoading, homeError, homeFetch,
                 scale, detailVars, quantityVars>>

\* the search box changes
SetSearchTerm(text) ==
  /\ route = "/" /\ homeView # Fault
  /\ searchTerm' = text
  /\ homeView' = HomePage(recipes, text, tagFilter, expandedId, homeLoading, homeError)
  /\ UNCHANGED <<route, recipes, expandedId, tagFilter, homeLoading, homeError, homeFetch,
                 scale, detailVars, quantityVars>>

\* a chip of the tag row is pressed
SetTagFilter(tag) ==
  /\ route = "/" /\ homeView # Fault
  /\ \E i \in 1..Len(homeView.chips) : homeView.chips[i] = tag
  /\ tagFilter' = tag
  /\ homeView' = HomePage(recipes, searchTerm, tag, expandedId, homeLoading, homeError)
  /\ UNCHANGED <<route, recipes, expandedId, searchTerm, homeLoading, homeError, homeFetch,
                 scale, detailVars, quantityVars>>

\* onToggle of the card of a recipe
Toggle(id) ==
  /\ route = "/" /\ homeView # Fault
  /\ homeView.grid # Nothing
  /\ \E i \in 1..Len(homeView.grid.items) : homeView.grid.items[i].key = id
  /\ expandedId' = IF expandedId = Str(id) THEN Null ELSE Str(id)
  /\ homeView' = HomePage(recipes, searchTerm, tagFilter, expandedId', homeLoading, homeError)
  /\ UNCHANGED <<route, recipes, searchTerm, tagFilter, homeLoading, homeError, homeFetch,
                 scale, detailVars, quantityVars>>

\* "View full recipe" on a card: the router mounts the detail page
OpenRecipe(s) ==
  /\ route = "/" /\ homeView # Fault
  /\ homeView.grid # Nothing
  /\ \E i \in 1..Len(homeView.grid.items) : homeView.grid.items[i].link = Str(s)
  /\ UnmountHome
  /\ MountDetail(Str(s))
  /\ UNCHANGED quantityVars

\* an effect that calls setLoading(true) before it issues the query
RunEffect_SetsLoading ==
  /\ route = "/recipes/:slug" /\ detailView # Fault
  /\ effectDue
  /\ effectDue' = FALSE
  /\ IF ~Truthy(slug)
       THEN /\ error' = NotFound /\ loading' = FALSE
            /\ UNCHANGED <<fetches, lastOutcome>>
       ELSE /\ fetches' = Append(fetches, slug.text) /\ lastOutcome' = "pending"
            /\ loading' = TRUE
            /\ UNCHANGED error
  /\ detailView' = RecipePage(recipe, loading', error', scale, TRUE)
  /\ UNCHANGED <<route, slug, recipe, scale, homeVars, quantityVars>>

\* the effect of RecipePage runs after a render with a new slug: without a
\* slug setError and setLoading(false), else the detail query is issued
RunEffect ==
  /\ route = "/recipes/:slug" /\ detailView # Fault
  /\ effectDue
  /\ effectDue' = FALSE
  /\ IF ~Truthy(slug)
       THEN /\ error' = NotFound /\ loading' = FALSE
            /\ UNCHANGED <<fetches, lastOutcome>>
       ELSE /\ fetches' = Append(fetches, slug.text) /\ lastOutcome' = "pending"
            /\ UNCHANGED <<error, loading>>
  /\ detailView' = RecipePage(recipe, loading', error', scale, TRUE)
  /\ UNCHANGED <<route, slug, recipe, scale, homeVars, quantityVars>>

\* the fetch at position i is the one issued last
IssuedLast(i) == i = Len(fetches) /\ lastOutcome = "pending"

\* a detail query resolves: setError or setRecipe, then setLoading(false)
FetchFulfil(i) ==
  /\ route = "/recipes/:slug" /\ detailView # Fault /\ ~effectDue
  /\ i \in 1..Len(fetches)
  /\ \E data \in DetailResponses(fetches[i]) :
       /\ IF data = Null
            THEN error' = NotFound /\ recipe' = recipe
            ELSE recipe' = data /\ error' = error
       /\ lastOutcome' = IF ~IssuedLast(i) THEN lastOutcome
                         ELSE IF data = Null THEN "empty" ELSE "document"
  /\ loading' = FALSE
  /\ fetches' = Remove(fetches, i)
  /\ detailView' = RecipePage(recipe', FALSE, error', scale, TRUE)
  /\ UNCHANGED <<route, slug, scale, effectDue, homeVars, quantityVars>>

\* a detail query rejects: setError(...), setLoading(false)
FetchReject(i) ==
  /\ route = "/recipes/:slug" /\ detailView # Fault /\ ~effectDue
  /\ i \in 1..Len(fetches)
  /\ error' = RecipeError
  /\ loading' = FALSE
  /\ lastOutcome' = IF IssuedLast(i) THEN "rejected" ELSE lastOutcome
  /\ fetches' = Remove(fetches, i)
  /\ detailView' = RecipePage(recipe, FALSE, RecipeError, scale, TRUE)
  /\ UNCHANGED <<route, slug, recipe, scale, effectDue, homeVars, quantityVars>>

\* a scale button that also starts the detail query again
PressScale_Refetch(s) ==
  /\ route = "/recipes/:slug" /\ ~effectDue
  /\ detailView # Fault /\ detailView.k = "recipe"
  /\ scale' = s
  /\ fetches' = IF Len(fetches) < MaxFetches THEN Append(fetches, slug.text) ELSE <<>>
  /\ detailView' = RecipePage(recipe, loading, error, s, TRUE)
  /\ UNCHANGED <<route, slug, recipe, loading, error, effectDue, lastOutcome, homeVars, quantityVars>>

\* a scale button is pressed: setScale(option)
PressScale(s) ==
  /\ route = "/recipes/:slug" /\ ~effectDue
  /\ detailView # Fault /\ detailView.k = "recipe"
  /\ scale' = s
  /\ detailView' = RecipePage(recipe, loading, error, s, TRUE)
  /\ UNCHANGED <<route, slug, recipe, loading, error, fetches, effectDue, lastOutcome,
                 homeVars, quantityVars>>

\* the router hands another slug to the mounted detail page (a move in
\* the history between two recipe addresses): the page is rendered with
\* the state it has, and its effect is due again
ChangeSlug(s) ==
  /\ route = "/recipes/:slug" /\ detailView # Fault /\ ~effectDue
  /\ slug # Str(s)
  /\ Len(fetches) < MaxFetches
  /\ slug' = Str(s)
  /\ effectDue' = TRUE
  /\ UNCHANGED <<route, recipe, loading, error, scale, fetches, lastOutcome, detailView,
                 homeVars, quantityVars>>

\* "Back to recipes": the router mounts the list page
BackToRecipes ==
  /\ route = "/recipes/:slug" /\ detailView # Fault /\ ~effectDue
  /\ UnmountDetail
  /\ MountHome
  /\ UNCHANGED quantityVars

NextPages ==
  \/ \E data \in HomeResponses : HomeFetchFulfil(data)
  \/ HomeFetchReject
  \/ \E text \in SearchTerms : SetSearchTerm(text)
  \/ \E tag \in {"all"} \cup {TagUniverse[i] : i \in 1..Len(TagUniverse)} : SetTagFilter(tag)
  \/ \E id \in {"r1", "r2"} : Toggle(id)
  \/ \E s \in Slugs : OpenRecipe(s)
  \/ RunEffect
  \/ \E i \in 1..MaxFetches : FetchFulfil(i)
  \/ \E i \in 1..MaxFetches : FetchReject(i)
  \/ \E s \in Scales : PressScale(s)
  \/ \E s \in Slugs : ChangeSlug(s)
  \/ BackToRecipes

SpecPages == InitPages /\ [][NextPages]_vars

(***************************************************************************)
(* Properties.                                                             *)
(***************************************************************************)
Quarter == Num(1, 4)
Half == Num(1, 2)
Double == Num(2, 1)
Quadruple == Num(4, 1)

IsNum(x) == x.k = "num"
LessEq(x, y) == x.n * y.d <= y.n * x.d
Distance(x, y) == Num(Abs(x.n * y.d - y.n * x.d), x.d * y.d)
Product == Mul(parsed, scale)
Present == raw # Undefined /\ raw # <<>>

\* the multiplier as the fallback annotation writes it
ScaleText(s) ==
  CASE s = Quarter -> <<"0", ".", "2", "5">>
    [] s = Half -> <<"0", ".", "5">>
    [] s = Double -> <<"2">>
    [] s = Quadruple -> <<"4">>
    [] OTHER -> <<"1">>

\* C1: at scale 1 the line shows the quantity text character for character,
\* whether or not the text is parseable.
C1_IdentityScaling == (scale = One /\ raw # Undefined) => shown = raw

C1_Witness ==
  scale = One /\ raw = <<"1", "/", "p">> /\ parsed = Null /\ shown = <<"1", "/", "p">>

\* C2: a non-empty text that parseQuantity rejects is shown, at every scale
\* other than 1, as the text followed by " (x<scale>)".
C2_ParseFailureFallback ==
  (Present /\ parsed = Null /\ scale # One)
    => shown = raw \o <<" ", "(", "x">> \o ScaleText(scale) \o <<")">>

C2_Witness ==
  raw = <<"p">> /\ parsed = Null /\ scale = Quarter
    /\ shown = <<"p", " ", "(", "x", "0", ".", "2", "5", ")">>

\* C3: when the scaled value is a whole number the line shows that integer's
\* decimal digits, without a decimal point.
C3_WholeNumberRendering ==
  (Present /\ IsNum(parsed) /\ scale # One /\ Product.d = 1)
    => /\ shown # <<>>
       /\ AllDigits(shown)
       /\ DigitsValue(shown) = Product.n
       /\ (Len(shown) > 1 => shown[1] # "0")

C3_Witness ==
  raw = <<"1", "/", "2">> /\ parsed = Half /\ scale = Quadruple /\ shown = <<"2">>

\* a decimal numeral with at most 2 decimals, no trailing zero in the
\* fraction and no trailing point
ShortDecimal(s) ==
  LET ps == Split(s, ".")
  IN  /\ Len(ps) \in {1, 2}
      /\ ps[1] # <<>> /\ AllDigits(ps[1])
      /\ Len(ps[1]) > 1 => ps[1][1] # "0"
      /\ Len(ps) = 2 =>
           /\ AllDigits(ps[2])
           /\ Len(ps[2]) \in {1, 2}
           /\ ps[2][Len(ps[2])] # "0"

\* C4: a scaled value that is not whole is shown with at most 2 decimals,
\* without trailing fractional zeros or a trailing point, and the digits of
\* its integer part are kept (the numeral is within 0.005 of the value).
C4_NonWholeRendering ==
  (Present /\ IsNum(parsed) /\ scale # One /\ Product.d # 1)
    => /\ ShortDecimal(shown)
       /\ LessEq(Distance(Number(shown), Product), Num(1, 200))

C4_Witness ==
  raw = <<".", "0", "0", "1">> /\ IsNum(parsed) /\ scale = Double /\ shown = <<"0">>

\* C5: parsing the displayed text of a parseable quantity succeeds and gives
\* the scaled value within 0.005.
C5_RoundTrip ==
  (IsNum(parsed) /\ reparsed # Unset)
    => /\ IsNum(reparsed)
       /\ LessEq(Distance(reparsed, Product), Num(1, 200))

C5_Witness ==
  raw = <<"1", "/", "3">> /\ scale = Double /\ IsNum(parsed) /\ reparsed = Num(67, 100)

\* C6: an absent or empty quantity is shown as the empty text at every scale.
C6_MissingQuantity == (raw = Undefined \/ raw = <<>>) => shown = <<>>

C6_Witness == raw = Undefined /\ scale = Double /\ shown = <<>>

StartsWith(s, p) == Len(s) >= Len(p) /\ SubSeq(s, 1, Len(p)) = p

\* C7: the documented forms parse to their value: "w" to w, "n/d" to n/d and
\* "w n/d" to w + n/d, for d # 0, and never to null.
C7_DocumentedGrammar ==
  (parsed # Unset /\ raw \in DocumentedTexts) =>
    /\ \A w \in 0..MaxNum : raw = WholeText(w) => parsed = Num(w, 1)
    /\ \A n \in 0..MaxNum, d \in 1..MaxNum :
         raw = FractionText(n, d) => parsed = Num(n, d)
    /\ \A w \in 0..MaxNum :
         StartsWith(raw, WholeText(w) \o <<" ">>) =>
           \A n \in 0..MaxNum, d \in 1..MaxNum :
             raw = MixedText(w, n, d) => parsed = Num(w * d + n, d)

C7_Witness ==
  raw = <<"1", " ", "1", "/", "2">> /\ parsed = Num(3, 2)

\* a numerator or denominator that is a number: not empty, and finite
NumericText(s) == Trim(s) # <<>> /\ IsFinite(Number(s))

ValidFraction(t) ==
  LET ps == Split(t, "/")
  IN  Len(ps) = 2 /\ NumericText(ps[1]) /\ NumericText(ps[2]) /\ Number(ps[2]).n # 0

Tokens(r) == Split(Trim(r), " ")

\* C8: a token with '/' counts only if numerator and denominator are both
\* numbers and the denominator is nonzero; any other such token makes
\* parseQuantity return null.
C8_FractionTokenValidity ==
  (parsed # Unset /\ raw # Undefined) =>
    ((\E i \in 1..Len(Tokens(raw)) :
        Includes(Tokens(raw)[i], "/") /\ ~ValidFraction(Tokens(raw)[i]))
      => parsed = Null)

RECURSIVE SumAll(_)
SumAll(ts) ==
  IF ts = <<>> THEN Num(0, 1) ELSE Add(fractionToNumber(Head(ts)), SumAll(Tail(ts)))

\* C9: parseQuantity returns null when any token between single spaces fails
\* to parse (an empty token included), and otherwise the sum of all tokens.
C9_NoPartialCredit ==
  (parsed # Unset /\ raw # Undefined /\ Trim(raw) # <<>>) =>
    LET ts == Tokens(raw)
    IN  IF \E i \in 1..Len(ts) : fractionToNumber(ts[i]) = Null
          THEN parsed = Null
          ELSE parsed = SumAll(ts)

C9_Witness ==
  raw = <<"1", " ", " ", "1">> /\ parsed = Null

\* C10: white space around the text does not change the result, and a text
\* that is empty after trimming parses to null.
C10_TrimInvariance ==
  (parsed # Unset /\ raw # Undefined) =>
    /\ parsed = parseQuantity(Trim(raw))
    /\ (\A i \in 1..Len(raw) : raw[i] \in WhiteSpace) => parsed = Null

C10_Witness ==
  raw = <<" ", "1", "\t">> /\ parsed = One

(***************************************************************************)
(* Properties of formatTime and getDifficultyLabel (SpecFormat).           *)
(***************************************************************************)
MinutesOf(x) == IF x.k = "num" THEN x.n ELSE 0
TotalMinutes == MinutesOf(prep) + MinutesOf(cook)

\* the decimal numeral of v, without leading zeros
Numeral(s, v) ==
  s # <<>> /\ AllDigits(s) /\ DigitsValue(s) = v /\ (Len(s) > 1 => s[1] # "0")

\* the numeral of v followed by the letter c
Suffixed(s, v, c) ==
  Len(s) >= 2 /\ s[Len(s)] = c /\ Numeral(SubSeq(s, 1, Len(s) - 1), v)

\* C11: each of the four functions returns a defined result or a sentinel
\* for every input: parseQuantity a finite number or null, the label null
\* or a value, formatTime and formatScaledQuantity a text; none faults.
C11_Totality ==
  /\ parsed.k \in {"unset", "null", "num"}
  /\ label.k \in {"unset", "null", "string", "function", "object"}
  /\ timeText # Undefined
  /\ shown # Undefined
  /\ (parsed # Unset /\ raw \in {Undefined, <<>>}) => (parsed = Null /\ shown = <<>>)

C11_Witness ==
  /\ raw = Undefined /\ parsed = Null /\ shown = <<>>
  /\ prep = Absent /\ cook = Absent /\ timeText = TimeVaries
  /\ code = Absent /\ label = Null

\* C12: formatTime returns "Time varies" exactly when prep + cook, with a
\* missing value counted as 0, is 0.
C12_TimeVaries ==
  timeText # <<>> => (timeText = TimeVaries <=> TotalMinutes = 0)

C12_Witness ==
  prep = Num(0, 1) /\ cook = Absent /\ timeText = TimeVaries

\* C13: a total between 1 and 59 is written "<total> min".
C13_MinutesOnly ==
  (timeText # <<>> /\ 0 < TotalMinutes /\ TotalMinutes < 60) =>
    LET ps == Split(timeText, " ")
    IN  Len(ps) = 2 /\ Numeral(ps[1], TotalMinutes) /\ ps[2] = <<"m", "i", "n">>

C13_Witness ==
  prep = Num(30, 1) /\ cook = Num(20, 1) /\ timeText = <<"5", "0", " ", "m", "i", "n">>

\* C14: a total of 60 or more is written "<h>h <m>m" when the minutes part
\* m is not 0 and "<h>h" when it is, with h >= 1, m <= 59, 60 * h + m = total.
C14_HoursAndMinutes ==
  (timeText # <<>> /\ TotalMinutes >= 60) =>
    \E h \in 1..TotalMinutes, m \in 0..59 :
      /\ 60 * h + m = TotalMinutes
      /\ LET ps == Split(timeText, " ")
         IN  IF m # 0
               THEN Len(ps) = 2 /\ Suffixed(ps[1], h, "h") /\ Suffixed(ps[2], m, "m")
               ELSE Len(ps) = 1 /\ Suffixed(ps[1], h, "h")

C14_Witness ==
  prep = Num(40, 1) /\ cook = Num(35, 1) /\ timeText = <<"1", "h", " ", "1", "5", "m">>

\* C15: formatTime depends only on the sum of its arguments, a missing
\* argument counting as 0.
C15_SumOnly ==
  timeText # <<>> =>
    /\ timeText = formatTime(cook, prep)
    /\ timeText = formatTime(Num(TotalMinutes, 1), Absent)
    /\ cook = Absent => timeText = formatTime(prep, Num(0, 1))

C15_Witness ==
  prep = Num(20, 1) /\ cook = Absent /\ timeText = <<"2", "0", " ", "m", "i", "n">>

MappedCodes == {"easy", "weeknight", "showstopper"}

\* C16: every non-empty code outside the mapping is returned unchanged.
C16_UnknownPassThrough ==
  (label # Unset /\ code.k = "string" /\ code.text # "" /\ code.text \notin MappedCodes)
    => label = code

\* C17: easy, weeknight and showstopper give their labels; no other code
\* gives one of these labels unless the code is that label text itself.
C17_FixedMapping ==
  label # Unset =>
    /\ code = Str("easy") => label = Str("Easy")
    /\ code = Str("weeknight") => label = Str("Weeknight-friendly")
    /\ code = Str("showstopper") => label = Str("Showstopper")
    /\ label \in {Str("Easy"), Str("Weeknight-friendly"), Str("Showstopper")}
         => (code.text \in MappedCodes \/ code = label)

C17_Witness ==
  code = Str("weeknight") /\ label = Str("Weeknight-friendly")

\* C18: the label is null exactly when the code is absent or empty, and a
\* string for every non-empty code.
C18_NullWhenAbsent ==
  label # Unset =>
    /\ label = Null <=> code \in {Absent, Null, Str("")}
    /\ (code.k = "string" /\ code.text # "") => label.k = "string"

(***************************************************************************)
(* Properties of the pages (SpecPages).                                    *)
(***************************************************************************)
OnList == route = "/"
OnDetail == route = "/recipes/:slug"

\* the list page shows its grid of cards
GridShown == OnList /\ homeView # Fault /\ homeView.grid # Nothing

\* the recipe at position i of the fetched list passes the search and tag filter
PassesFilter(i) ==
  Matches(recipes[i], ToLowerCase(Trim(searchTerm)), tagFilter) = Str("true")

\* the detail page holds a loaded recipe and no error
RecipeLoaded == OnDetail /\ ~loading /\ error = Null /\ recipe # Null

\* C19: scaling is a display transformation.  At scale 1 every ingredient
\* line of the detail page is the stored line (the quantity text as it
\* was fetched), and a step that changes the scale leaves the fetched
\* recipe, the slug, loading and error as they are and starts no fetch.
C19_ScalingIsDisplayOnly ==
  /\ [](RecipeLoaded /\ scale = One /\ ~Nullish(recipe.ingredients)
          => /\ detailView.k = "recipe"
             /\ Len(detailView.lines.items) = Len(recipe.ingredients.items)
             /\ \A i \in 1..Len(recipe.ingredients.items) :
                  detailView.lines.items[i] = CardLine(recipe.ingredients.items[i]))
  /\ [][OnDetail /\ route' = route /\ scale' # scale
          => UNCHANGED <<recipe, slug, loading, error, fetches>>]_vars

\* a recipe with the quantity 1/2 is on display at scale 0.25 as 0.13
C19_Witness ==
  /\ RecipeLoaded /\ scale = Quarter
  /\ detailView.k = "recipe"
  /\ ~Nullish(recipe.ingredients)
  /\ recipe.ingredients.items[1].quantity = Txt(<<"1", "/", "2">>)
  /\ detailView.lines.items[1].primary[1] = Txt(<<"0", ".", "1", "3">>)

\* C20: for recipes whose optional fields are absent (undefined or null)
\* or whose quantity text is unparseable, no render throws: the list page
\* renders under every search text and tag filter, with a card for every
\* recipe that passes them, and the detail page renders a loaded recipe
\* at every scale with a line for every ingredient.
C20_AlwaysRenders ==
  /\ homeView # Fault /\ detailView # Fault
  /\ OnList =>
       /\ homeView.k = "home"
       /\ ~homeLoading =>
            \A i \in 1..Len(recipes) :
              PassesFilter(i) =>
                /\ homeView.grid # Nothing
                /\ \E j \in 1..Len(homeView.grid.items) :
                     homeView.grid.items[j].key = recipes[i]._id
  /\ RecipeLoaded =>
       /\ detailView.k = "recipe"
       /\ ~Nullish(recipe.ingredients) =>
            Len(detailView.lines.items) = Len(recipe.ingredients.items)

\* the expanded card of a recipe without any optional field, under a search
C20_Witness ==
  /\ GridShown
  /\ recipes[1] = Doc(OptionalFields, Null, <<"p">>)
  /\ expandedId = Str("r1")
  /\ searchTerm = <<"a", "b">>
  /\ homeView.grid.items[1].key = "r1"
  /\ homeView.grid.items[1].lines = Arr(<<>>)

(***************************************************************************)
(* Properties of the decimals of a scaled quantity (Spec).                 *)
(***************************************************************************)
\* the hundredths below the scaled value, and what is left above them
Hundredths == (Product.n * 100) \div Product.d
Remainder == (Product.n * 100) % Product.d

NonWhole == Present /\ IsNum(parsed) /\ scale # One /\ Product.d # 1

\* C21 as stated: a scaled value that is not whole is shown truncated to
\* 2 decimals (the digits beyond the second are dropped, not rounded),
\* without trailing zeros.
C21_Truncation ==
  NonWhole => ShortDecimal(shown) /\ Number(shown) = Num(Hundredths, 100)

\* C21 amended: a scaled value that is not whole is shown rounded to the
\* nearest 2 decimals (toFixed(2)), without trailing zeros: the hundredth
\* above when more than half a hundredth is left, the hundredth below when
\* less, and on an exact tie of an exactly represented value the one above;
\* one third is shown as 0.33.
C21_Rounding ==
  NonWhole =>
    /\ ShortDecimal(shown)
    /\ 2 * Remainder > Product.d => Number(shown) = Num(Hundredths + 1, 100)
    /\ 2 * Remainder < Product.d => Number(shown) = Num(Hundredths, 100)
    /\ 2 * Remainder = Product.d =>
         /\ Number(shown) \in {Num(Hundredths, 100), Num(Hundredths + 1, 100)}
         /\ BinaryExact(raw) => Number(shown) = Num(Hundredths + 1, 100)
    /\ Product = Num(1, 3) => shown = <<"0", ".", "3", "3">>

\* two thirds is shown as 0.67
C21_Witness ==
  /\ raw = <<"1", "/", "6">> /\ scale = Quadruple /\ parsed = Num(1, 6)
  /\ shown = <<"0", ".", "6", "7">>

(***************************************************************************)
(* Properties of the detail page (SpecPages).                              *)
(***************************************************************************)
\* the detail page stays mounted over the step
StaysOnDetail == OnDetail /\ route' = route

\* a pending detail query settles in the step
Settles == StaysOnDetail /\ Len(fetches') < Len(fetches)

\* every detail query that was issued has settled
AllSettled == OnDetail /\ ~effectDue /\ fetches = <<>> /\ lastOutcome # "none"

\* C22 as stated: once every fetch has settled the page shows the recipe of
\* the current slug, or the alert exactly when the fetch of the current slug
\* (the one issued last) was rejected or found no document; no late
\* response and no error of an earlier slug is on display.
C22_SettledShowsCurrent ==
  AllSettled =>
    /\ detailView.k = "recipe" => recipe.slug = Slug(slug.text)
    /\ lastOutcome = "document" => detailView.k = "recipe"
    /\ detailView.k = "alert" <=> lastOutcome \in {"empty", "rejected"}

\* C23: a mounted detail page starts with loading true; without a slug the
\* effect sets loading false and the error 'Recipe not found' and issues no
\* fetch; loading is true only while the effect or a fetch is outstanding,
\* every settled fetch (document, null or rejection) leaves loading false,
\* and loading that is false stays false while the page is mounted, also
\* over a change of slug.
C23_LoadingLifecycle ==
  /\ OnDetail => loading
  /\ [](OnDetail /\ ~Truthy(slug) /\ ~effectDue
          => ~loading /\ error = NotFound /\ fetches = <<>> /\ lastOutcome = "none")
  /\ [](OnDetail /\ loading => effectDue \/ fetches # <<>>)
  /\ [][(route # "/recipes/:slug" /\ route' = "/recipes/:slug") => loading']_vars
  /\ [][Settles => ~loading']_vars
  /\ [][StaysOnDetail /\ ~loading => ~loading']_vars

\* a loaded page whose slug has changed: the new fetch is pending and
\* loading is still false
C23_Witness ==
  /\ OnDetail /\ ~loading /\ recipe # Null
  /\ slug = Str("b") /\ recipe.slug = Slug("a") /\ fetches = <<"b">>

\* C24: exactly one view is shown: the loading view when loading, else the
\* alert when there is an error or no recipe, else the recipe view, which
\* so needs loading false, error null and a fetched document; a fetch that
\* settles either sets an error ('Recipe not found' for no document, the
\* could-not-reach message for a rejection) and leaves recipe as it is, or
\* sets recipe to a fetched document and leaves error as it is.
C24_ViewSelection ==
  /\ [](OnDetail =>
          /\ detailView.k \in {"loading", "alert", "recipe"}
          /\ detailView.k = "loading" <=> loading
          /\ detailView.k = "recipe" <=> ~loading /\ error = Null /\ recipe # Null
          /\ detailView.k = "alert" =>
               detailView.message = (IF error = Null THEN NotFound ELSE error)
          /\ recipe # Null => recipe \in Docs \cup {Other}
          /\ error \in {Null, NotFound, RecipeError})
  /\ [][Settles =>
          \/ recipe' = recipe /\ error' \in {NotFound, RecipeError}
          \/ recipe' # Null /\ error' = error]_vars
  /\ [][StaysOnDetail /\ lastOutcome' # lastOutcome =>
          /\ lastOutcome' = "empty" => recipe' = recipe /\ error' = NotFound
          /\ lastOutcome' = "rejected" => recipe' = recipe /\ error' = RecipeError
          /\ lastOutcome' = "document" => recipe' # Null /\ error' = error]_vars

\* the alert is shown although a recipe is held: a later fetch found nothing
C24_Witness ==
  /\ OnDetail /\ ~loading /\ recipe # Null /\ error = NotFound
  /\ detailView.k = "alert" /\ detailView.message = NotFound

\* ---------------------------------------------------------------------
\* Properties of the list page
\* ---------------------------------------------------------------------

\* part occurs in whole as a run of consecutive characters
IsSubstring(part, whole) ==
  \/ part = <<>>
  \/ \E i \in 1..Len(whole) : \E j \in i..Len(whole) : SubSeq(whole, i, j) = part

\* the search term of the page, trimmed and lower-cased
SearchText == ToLowerCase(Trim(searchTerm))

\* the recipe has the tag
Tagged(r, tag) == \E j \in 1..Len(Items(r.tags)) : Items(r.tags)[j] = Str(tag)

\* the recipe satisfies the search term of the page
SatisfiesSearch(r) ==
  \/ SearchText = <<>>
  \/ IsSubstring(SearchText, ToLowerCase(r.title.chars))
  \/ /\ r.shortDescription.k = "text"
     /\ IsSubstring(SearchText, ToLowerCase(r.shortDescription.chars))

\* the recipe satisfies the tag filter of the page
SatisfiesTag(r) == tagFilter = "all" \/ Tagged(r, tagFilter)

\* the fetched recipes that satisfy both, in the order of the fetched list
Satisfying ==
  LET Both(r) == SatisfiesSearch(r) /\ SatisfiesTag(r)
  IN  SelectSeq(recipes, Both)

\* the keys of the cards on display, in the order of the grid
DisplayedKeys ==
  IF GridShown
    THEN [i \in 1..Len(homeView.grid.items) |-> homeView.grid.items[i].key]
    ELSE <<>>

\* C25: list page filtering.  The cards on display are exactly the fetched
\* recipes that satisfy both the search term (trimmed and lower-cased: it
\* is empty, or a substring of the lower-cased title or short description)
\* and the tag filter ('all', or a tag of the recipe), in the order of the
\* fetched list; a search term of only whitespace filters nothing; and the
\* count, whenever one is shown (always once loading is over), is the
\* length of that list.
C25_Filtering ==
  OnList =>
    /\ homeView # Fault
    /\ DisplayedKeys = [i \in 1..Len(Satisfying) |-> Satisfying[i]._id]
    /\ (\A i \in 1..Len(searchTerm) : searchTerm[i] \in WhiteSpace) =>
         Satisfying = SelectSeq(recipes, SatisfiesTag)
    /\ ~homeLoading => homeView.count.k = "num"
    /\ homeView.count.k = "num" => homeView.count = Num(Len(Satisfying), 1)

\* a search term with blanks around it and a tag filter, each dropping
\* nothing or something: of two fetched recipes only the second one, which
\* has the letter and the tag, is on display
C25_Witness ==
  /\ OnList /\ Len(recipes) = 2
  /\ searchTerm = <<" ", "B", " ">> /\ tagFilter = "quick"
  /\ recipes[1] = Other
  /\ DisplayedKeys = <<"r1">>
  /\ homeView.count = Num(1, 1)
\* how many of the four settled views of the list page are on display
SettledViews ==
  (IF homeView.alert # Nothing THEN 1 ELSE 0)
  + (IF homeView.ready THEN 1 ELSE 0)
  + (IF homeView.noMatches THEN 1 ELSE 0)
  + (IF homeView.grid # Nothing THEN 1 ELSE 0)

\* C26: list page view selection.  While loading is true the loading
\* indicator is shown and neither alert, empty state nor grid; loading is
\* true exactly while the single fetch is pending; once it has settled
\* exactly one of the four is shown: the alert (the fetch failed, the
\* recipes stay empty), 'Ready for the first recipe' (no error, no
\* recipes), 'No matches yet' (recipes exist, none passes the filters) or
\* the grid (at least one passes); and error is non-null only when the
\* recipe list is empty.
C26_ViewSelection ==
  OnList =>
    /\ homeView # Fault
    /\ homeLoading = homeFetch
    /\ homeView.gathering = homeLoading
    /\ homeLoading => SettledViews = 0
    /\ ~homeLoading =>
         /\ SettledViews = 1
         /\ homeView.alert # Nothing <=> homeError # Null
         /\ homeView.alert # Nothing => homeView.alert = RecipeBoxError /\ recipes = <<>>
         /\ homeView.ready <=> homeError = Null /\ recipes = <<>>
         /\ homeView.noMatches <=> recipes # <<>> /\ Satisfying = <<>>
         /\ homeView.grid # Nothing <=> Satisfying # <<>>
    /\ homeError # Null => recipes = <<>>

\* the fetch failed: the alert is on display and nothing else
C26_Witness ==
  /\ OnList /\ ~homeLoading /\ homeError = RecipeBoxError
  /\ homeView.alert = RecipeBoxError
  /\ ~homeView.gathering /\ ~homeView.ready /\ ~homeView.noMatches
  /\ homeView.grid = Nothing
\* the step leaves the list page mounted
StaysOnList == route = "/" /\ route' = "/"

\* the cards on display that are expanded, by position in a view of the page
ExpandedCards(view) ==
  IF view = Fault \/ view.grid = Nothing THEN {}
  ELSE {i \in 1..Len(view.grid.items) : view.grid.items[i].toggle = "Hide steps"}

\* the ids of the fetched recipes
RecipeIds == {recipes[i]._id : i \in 1..Len(recipes)}

\* C27: list page expansion.  At most one card is expanded at any time,
\* and it is the card of the expanded id; toggling the expanded card
\* collapses it, toggling any other card expands that one and leaves no
\* other card expanded; a change of the search term or of the tag filter
\* leaves the expanded id as it is, so that the card of the expanded id is
\* expanded whenever it is on display, also after a filter has hidden it.
C27_Expansion ==
  /\ [](OnList =>
         /\ homeView # Fault
         /\ Cardinality(ExpandedCards(homeView)) <= 1
         /\ expandedId \in {Null} \cup {Str(id) : id \in RecipeIds}
         /\ \A i \in 1..Len(DisplayedKeys) :
              i \in ExpandedCards(homeView) <=> expandedId = Str(DisplayedKeys[i]))
  /\ [][\A id \in {"r1", "r2"} :
         Toggle(id) =>
           /\ expandedId = Str(id) => expandedId' = Null /\ ExpandedCards(homeView') = {}
           /\ expandedId # Str(id) =>
                /\ expandedId' = Str(id)
                /\ \A i \in 1..Len(homeView'.grid.items) :
                     i \in ExpandedCards(homeView') <=> homeView'.grid.items[i].key = id]_vars
  /\ [][StaysOnList /\ (searchTerm' # searchTerm \/ tagFilter' # tagFilter)
         => expandedId' = expandedId]_vars
  /\ [][StaysOnList /\ expandedId' # expandedId
         => \E id \in {DisplayedKeys[i] : i \in 1..Len(DisplayedKeys)} : Toggle(id)]_vars

\* the expanded card is hidden by the tag filter: the first recipe is the
\* expanded one and only the second is on display, collapsed
C27_Witness ==
  /\ OnList /\ Len(recipes) = 2
  /\ expandedId = Str("r1") /\ tagFilter = "dinner"
  /\ DisplayedKeys = <<"r2">>
  /\ ExpandedCards(homeView) = {}
\* the tag values that occur in the fetched recipes
DataTags ==
  UNION {{Items(recipes[r].tags)[j].text : j \in 1..Len(Items(recipes[r].tags))} :
           r \in 1..Len(recipes)}

\* the fetched recipes that satisfy the search term, whatever their tags
SatisfyingSearch == SelectSeq(recipes, SatisfiesSearch)

\* the chips after the 'All' chip
TagChips(view) == Tail(view.chips)

\* the step selects the chip of tag T and only recipes with T are displayed after it
ShowsOnly(T) ==
  SetTagFilter(T) =>
    /\ homeView' # Fault
    /\ homeView'.grid # Nothing =>
         \A i \in 1..Len(homeView'.grid.items) :
           \E r \in 1..Len(recipes) :
             /\ recipes[r]._id = homeView'.grid.items[i].key
             /\ Tagged(recipes[r], T)

\* C28: list page tag chips.  The chips are 'All' and then each distinct
\* tag of the fetched recipes exactly once, in sorted order; the tag
\* filter is always 'all' or one of those tags; selecting the chip of a
\* tag T shows only recipes whose tags contain T, for every tag value T
\* that occurs in the data; and under 'all' the tag puts no restriction
\* on the list.
C28_TagChips ==
  /\ [](OnList =>
         /\ homeView # Fault
         /\ Head(homeView.chips) = "all"
         /\ {TagChips(homeView)[i] : i \in 1..Len(TagChips(homeView))} = DataTags
         /\ Len(TagChips(homeView)) = Cardinality(DataTags)
         /\ \A i \in 1..(Len(TagChips(homeView)) - 1) :
              localeCompare(TagChips(homeView)[i], TagChips(homeView)[i + 1]) < 0
         /\ tagFilter \in {"all"} \cup DataTags
         /\ homeView.active = tagFilter)
  /\ [][\A T \in DataTags : ShowsOnly(T)]_vars
  /\ [][SetTagFilter("all") =>
         DisplayedKeys' = [i \in 1..Len(SatisfyingSearch') |-> SatisfyingSearch'[i]._id]]_vars
====
